---------------------------- MODULE Spec2Model ----------------------------
(***************************************************************************)
(* Pong (src/main.rs): the two paddles, the ball, the four held-key flags, *)
(* the GLFW key callback, the sanitize clamp and the game loop of run().   *)
(*                                                                         *)
(* Coordinates are the program's f32 coordinates in exact hundredths:      *)
(* 1.0 is 100, the paddle step 0.05 is 5, the base speed 0.03 is 3.  All   *)
(* coordinates the program computes are sums and differences of such       *)
(* values, so the arithmetic below is the program's arithmetic without the *)
(* f32 rounding error (which is below 1e-6 on every reachable value).      *)
(***************************************************************************)
EXTENDS Integers, Sequences, FiniteSets, TLC

VARIABLES
    player_1,          \* Player.vertices of player_1 (4 vertices)
    player_2,          \* Player.vertices of player_2 (4 vertices)
    ball,              \* the Ball struct
    is_w_down,         \* held flag of key W
    is_s_down,         \* held flag of key S
    is_up_down,        \* held flag of key Up
    is_down_down,      \* held flag of key Down
    to_player_1,       \* the coin toss: <<>> before it, <<b>> after
    combined_indices,  \* the index list built before the loop
    new_vertices,      \* the frame's vertex snapshot (a local of the loop body)
    pc,                \* position of run(): "serve", "loop", "poll", "render", "closed"
    polled,            \* key events delivered by the current poll_events call
    last,              \* history: the last action delivered for each key (SpecKeys)
    hist,              \* history: the paddle handed to sanitize and its results (SpecClamp)
    twin,              \* the second of two runs of the program (SpecTwin)
    mutex,             \* the paddles whose Mutex is locked (SpecLocks)
    todo               \* the handler in progress, lock by lock (SpecLocks)

\* the lock-level variables: only the actions of SpecLocks use them
locking == <<mutex, todo>>

\* the variables of the side specifications: no action of Spec reads them
history == <<last, hist, twin, locking>>

vars == <<player_1, player_2, ball, is_w_down, is_s_down, is_up_down,
          is_down_down, to_player_1, combined_indices, new_vertices, pc,
          polled, history>>

---------------------------------------------------------------------------
(* Program constants, in hundredths.                                       *)

\* the paddle step: the literal 0.05 of can_move_* / player_*
PaddleStep == 5
\* the top bound: the literal 1. of can_move_up and sanitize
TopBound == 100
\* the bottom bound: the literal -1. of can_move_down and sanitize
BottomBound == -100
\* the serve speed: ball.velocity = 0.03
BaseSpeed == 3
\* Wrap64::ZERO and Wrap64::HALF_TURN, in degrees
ZERO == 0
HALF_TURN == 180

(* Bounds of the model.                                                    *)

\* key events one poll_events call delivers at most
MaxBatch == 2
\* how far (in hundredths) the paddles handed to sanitize alone lie beyond a bound
ClampRange == 30
\* key events delivered to the second run of the two-run comparison
MaxTwinEvents == 2
\* key events whose history SpecKeys records
MaxHistory == 3
\* handlers (key callbacks and frames) SpecLocks runs lock by lock
MaxLockRuns == 5

---------------------------------------------------------------------------
(* Vertices and the initial geometry.                                      *)

Vertex(x, y) == [position |-> <<x, y, 0>>, color |-> <<100, 100, 100>>]

vertices_1 == <<Vertex(-80, 20), Vertex(-80, -20), Vertex(-77, 20), Vertex(-77, -20)>>

vertices_2 == <<Vertex(80, 20), Vertex(80, -20), Vertex(77, 20), Vertex(77, -20)>>

ball_vertices == <<Vertex(2, 2), Vertex(-2, 2), Vertex(-2, -2), Vertex(2, -2)>>

indices_1 == <<0, 1, 2, 2, 1, 3>>

indices_2 == <<4, 6, 5, 6, 7, 5>>

ball_indices == <<8, 9, 10, 8, 10, 11>>

InitBall == [vertices |-> ball_vertices,
             velocity |-> 0,
             acceleration |-> 0,
             velocity_direction |-> ZERO,
             acceleration_direction |-> ZERO]

\* vertex.position[1] += dy for one vertex
MoveVertex(v, dy) ==
    [v EXCEPT !.position = <<v.position[1], v.position[2] + dy, v.position[3]>>]

\* MoveAll with a slip: the for_each stops before the last vertex
MoveAllButLast(vs, dy) ==
    <<MoveVertex(vs[1], dy), MoveVertex(vs[2], dy), MoveVertex(vs[3], dy), vs[4]>>

\* .iter_mut().for_each(|vertex| vertex.position[1] += dy)
MoveAll(vs, dy) ==
    <<MoveVertex(vs[1], dy), MoveVertex(vs[2], dy),
      MoveVertex(vs[3], dy), MoveVertex(vs[4], dy)>>

\* vertices[0].position[1]: the paddle's top
TopY(vs) == vs[1].position[2]

\* vertices[3].position[1]: the paddle's bottom
BottomY(vs) == vs[4].position[2]

---------------------------------------------------------------------------
(* The closures of the key callback.                                       *)

\* can_move_up with a slip: the comparison with the bound is not strict
can_move_up_inclusive(player) == TopY(player) + PaddleStep <= TopBound

can_move_up(player) == TopY(player) + PaddleStep < TopBound

can_move_down(player) == BottomY(player) - PaddleStep > BottomBound

\* player_up with a slip: the paddle moves by two steps
player_up_double(player) == MoveAll(player, 2 * PaddleStep)

player_up(player) == MoveAll(player, PaddleStep)

player_down(player) == MoveAll(player, 0 - PaddleStep)

Keys == {"W", "S", "Up", "Down", "Other"}

Actions == {"Press", "Release", "Repeat"}

\* IsHeld with a slip: a repeat is not taken for a held key
IsHeld_press_only(action) == action = "Press"

\* action == Action::Press || action == Action::Repeat
IsHeld(action) == action = "Press" \/ action = "Repeat"

\* if key == K { is_k_down = ... }: the flag of key k after the event
SetFlag(flag, k, key, action) == IF key = k THEN IsHeld(action) ELSE flag

\* The paddles are passed around as a pair ps = <<p1, p2>>.
\* if guard(ps[g]) { move(ps[m]) } with guard, move upward
IfUpThenUp(ps, g, m) ==
    IF can_move_up(ps[g]) THEN [ps EXCEPT ![m] = player_up(ps[m])] ELSE ps

\* if can_move_down(ps[g]) { player_down(ps[m]) }
IfDownThenDown(ps, g, m) ==
    IF can_move_down(ps[g]) THEN [ps EXCEPT ![m] = player_down(ps[m])] ELSE ps

\* if is_w_down && is_up_down { ... }: the second guard reads p1, it moves p2
BlockWUp(ps) == IfUpThenUp(IfUpThenUp(ps, 1, 1), 1, 2)

\* if is_s_down && is_up_down { ... }
BlockSUp(ps) == IfUpThenUp(IfDownThenDown(ps, 1, 1), 2, 2)

\* if is_w_down && is_down_down { ... }
BlockWDown(ps) == IfDownThenDown(IfUpThenUp(ps, 1, 1), 2, 2)

\* if is_s_down && is_down_down { ... }
BlockSDown(ps) == IfDownThenDown(IfDownThenDown(ps, 1, 1), 2, 2)

\* The eight movement blocks of the callback, in source order, under flags
\* f = [w, s, up, down].
MovePaddles(ps, f) ==
    LET a == IF f.w /\ f.up THEN BlockWUp(ps) ELSE ps
        b == IF f.s /\ f.up THEN BlockSUp(a) ELSE a
        c == IF f.w /\ f.down THEN BlockWDown(b) ELSE b
        d == IF f.s /\ f.down THEN BlockSDown(c) ELSE c
        e == IF f.w THEN IfUpThenUp(d, 1, 1) ELSE d
        g == IF f.s THEN IfDownThenDown(e, 1, 1) ELSE e
        h == IF f.up THEN IfUpThenUp(g, 2, 2) ELSE g
        i == IF f.down THEN IfDownThenDown(h, 2, 2) ELSE h
    IN  i

\* The flags after the four `if key == ...` assignments.
UpdateFlags(f, key, action) ==
    [w    |-> SetFlag(f.w, "W", key, action),
     s    |-> SetFlag(f.s, "S", key, action),
     up   |-> SetFlag(f.up, "Up", key, action),
     down |-> SetFlag(f.down, "Down", key, action)]

\* The whole key callback on a state st = [ps, f].
key_callback(st, key, action) ==
    LET f == UpdateFlags(st.f, key, action)
    IN  [ps |-> MovePaddles(st.ps, f), f |-> f]

---------------------------------------------------------------------------
(* sanitize and the game loop.                                             *)

\* sanitize with a slip: the top boundary is never checked
sanitize_bottom_only(player) ==
    LET bottom_delta == BottomBound - BottomY(player)
    IN  IF bottom_delta > 0 THEN MoveAll(player, bottom_delta) ELSE player

\* sanitize with a slip: a correction moves the paddle by one paddle step
sanitize_one_step(player) ==
    LET top_delta == TopY(player) - TopBound
        bottom_delta == BottomBound - BottomY(player)
    IN  IF top_delta > 0 THEN MoveAll(player, 0 - PaddleStep)
        ELSE IF bottom_delta > 0 THEN MoveAll(player, PaddleStep)
        ELSE player

\* sanitize with a slip: the corrections are applied with the wrong sign
sanitize_sign_slip(player) ==
    LET top_delta == TopY(player) - TopBound
        bottom_delta == BottomBound - BottomY(player)
    IN  IF top_delta > 0 THEN MoveAll(player, top_delta)
        ELSE IF bottom_delta > 0 THEN MoveAll(player, 0 - bottom_delta)
        ELSE player

\* sanitize with a slip: the top overshoot is read from vertices[3]
sanitize_wrong_vertex(player) ==
    LET top_delta == BottomY(player) - TopBound
        bottom_delta == BottomBound - BottomY(player)
    IN  IF top_delta > 0 THEN MoveAll(player, 0 - top_delta)
        ELSE IF bottom_delta > 0 THEN MoveAll(player, bottom_delta)
        ELSE player

sanitize(player) ==
    LET top_delta == TopY(player) - TopBound
        bottom_delta == BottomBound - BottomY(player)
    IN  IF top_delta > 0 THEN MoveAll(player, 0 - top_delta)
        ELSE IF bottom_delta > 0 THEN MoveAll(player, bottom_delta)
        ELSE player

\* Snapshot with a slip: the two paddles are copied in the wrong order
Snapshot_swapped(p1, p2, b) == p2 \o p1 \o b.vertices

\* new_vertices: player_1, player_2, ball, in this order
Snapshot(p1, p2, b) == p1 \o p2 \o b.vertices


Flags == [w |-> is_w_down, s |-> is_s_down, up |-> is_up_down, down |-> is_down_down]

NoFlags == [w |-> FALSE, s |-> FALSE, up |-> FALSE, down |-> FALSE]

\* ServeBall with a slip: the else branch leaves the ball at rest
ServeBall_else_at_rest(b, toss) ==
    IF toss
    THEN [b EXCEPT !.velocity_direction = HALF_TURN, !.velocity = BaseSpeed]
    ELSE b

\* the Game Init block: the ball after the serve
ServeBall(b, toss) ==
    IF toss
    THEN [b EXCEPT !.velocity_direction = HALF_TURN, !.velocity = BaseSpeed]
    ELSE [b EXCEPT !.velocity = BaseSpeed]

NoLast == [act |-> [k \in Keys |-> "None"], n |-> 0]

NoHist == [who |-> 0, seq |-> <<>>]

\* no handler in progress, n handlers started so far
Idle(n) == [handler |-> "idle", instrs |-> <<>>, phase |-> "none", delta |-> 0, n |-> n]

NoTwin == [same |-> "none", ps |-> <<vertices_1, vertices_2>>, f |-> NoFlags, n |-> 0]

\* The program after construction, before the coin toss.
Program ==
    /\ player_1 = vertices_1
    /\ player_2 = vertices_2
    /\ ball = InitBall
    /\ is_w_down = FALSE
    /\ is_s_down = FALSE
    /\ is_up_down = FALSE
    /\ is_down_down = FALSE
    /\ to_player_1 = <<>>
    /\ combined_indices = indices_1 \o indices_2 \o ball_indices
    /\ new_vertices = <<>>
    /\ pc = "serve"
    /\ polled = 0

Init ==
    /\ Program
    /\ last = NoLast
    /\ hist = NoHist
    /\ twin = NoTwin
    /\ mutex = {}
    /\ todo = Idle(0)

\* let to_player_1 = coin_toss(0.5); and the Game Init block
Serve ==
    /\ pc = "serve"
    /\ \E toss \in BOOLEAN :
          /\ to_player_1' = <<toss>>
          /\ ball' = ServeBall(ball, toss)
    /\ pc' = "loop"
    /\ UNCHANGED <<player_1, player_2, is_w_down, is_s_down, is_up_down,
                   is_down_down, combined_indices, new_vertices, polled,
                   history>>

\* while !state.window.should_close(): the window is open, poll_events starts
EnterLoop ==
    /\ pc = "loop"
    /\ pc' = "poll"
    /\ UNCHANGED <<player_1, player_2, ball, is_w_down, is_s_down, is_up_down,
                   is_down_down, to_player_1, combined_indices, new_vertices,
                   polled, history>>

\* while !state.window.should_close(): the window was closed, run() returns
Close ==
    /\ pc = "loop"
    /\ pc' = "closed"
    /\ UNCHANGED <<player_1, player_2, ball, is_w_down, is_s_down, is_up_down,
                   is_down_down, to_player_1, combined_indices, new_vertices,
                   polled, history>>

\* glfw.poll_events() delivers one key event: the key callback runs on the
\* program's paddles and flags.
KeyStep(key, action) ==
    /\ pc = "poll"
    /\ polled < MaxBatch
    /\ \E st \in {key_callback([ps |-> <<player_1, player_2>>, f |-> Flags],
                               key, action)} :
           /\ player_1' = st.ps[1]
           /\ player_2' = st.ps[2]
           /\ is_w_down' = st.f.w
           /\ is_s_down' = st.f.s
           /\ is_up_down' = st.f.up
           /\ is_down_down' = st.f.down
    /\ polled' = polled + 1
    /\ UNCHANGED <<ball, to_player_1, combined_indices, new_vertices, pc>>

KeyEvent(key, action) == KeyStep(key, action) /\ UNCHANGED history

\* poll_events has returned: sanitize(&player_1); sanitize(&player_2); then
\* the snapshot new_vertices
Frame ==
    /\ pc = "poll"
    /\ player_1' = sanitize(player_1)
    /\ player_2' = sanitize(player_2)
    /\ new_vertices' = Snapshot(player_1', player_2', ball)
    /\ pc' = "render"
    /\ UNCHANGED <<ball, is_w_down, is_s_down, is_up_down, is_down_down,
                   to_player_1, combined_indices, polled, history>>

\* write_buffer, the render pass, present; the loop body ends and drops
\* new_vertices
Render ==
    /\ pc = "render"
    /\ new_vertices' = <<>>
    /\ polled' = 0
    /\ pc' = "loop"
    /\ UNCHANGED <<player_1, player_2, ball, is_w_down, is_s_down, is_up_down,
                   is_down_down, to_player_1, combined_indices, history>>

Next ==
    \/ Serve
    \/ EnterLoop
    \/ Close
    \/ \E key \in Keys, action \in Actions : KeyEvent(key, action)
    \/ Frame
    \/ Render

Spec == Init /\ [][Next]_vars

---------------------------------------------------------------------------
(* Properties of the game loop and the key callback, under Spec.           *)

\* a step of Spec in which poll_events delivers one key event
IsKeyStep == pc = "poll" /\ polled' = polled + 1

\* a step of Spec in which the two sanitize calls and the snapshot run
IsFrameStep == pc = "poll" /\ pc' = "render"

\* vertices 1..4 of new_vertices are paddle 1, vertices 5..8 are paddle 2
PaddleSlots == 1..8

\* C1: at every frame's vertex-buffer read every paddle vertex of the snapshot
\* lies inside the arena (top y <= 1, bottom y >= -1), however many key
\* events the poll before it delivered.
C1_FrameReadInArena ==
    pc = "render" =>
        \A i \in PaddleSlots :
            /\ new_vertices[i].position[2] <= TopBound
            /\ new_vertices[i].position[2] >= BottomBound

\* C1 witness: a frame read after a full batch of key events, paddle 2 at the
\* top bound.
C1_Witness ==
    /\ pc = "render"
    /\ polled = MaxBatch
    /\ new_vertices[5].position[2] = TopBound
    /\ new_vertices[1].position[2] > 20

\* delta_y = (up ? +step : 0) + (down ? -step : 0)
DeltaY(up, down) ==
    (IF up THEN PaddleStep ELSE 0) + (IF down THEN 0 - PaddleStep ELSE 0)

\* no boundary guard of one callback can fail: three steps of room both ways
MidField(player) ==
    /\ TopY(player) + 3 * PaddleStep < TopBound
    /\ BottomY(player) - 3 * PaddleStep > BottomBound

\* C2: a key event displaces each paddle by exactly (+step if its up key is
\* held) + (-step if its down key is held); stated for paddles with room to
\* move, so that no boundary guard interferes.
C2_DisplacementIsDelta ==
    [][(IsKeyStep /\ MidField(player_1) /\ MidField(player_2)) =>
          /\ TopY(player_1') - TopY(player_1) = DeltaY(is_w_down', is_s_down')
          /\ TopY(player_2') - TopY(player_2) = DeltaY(is_up_down', is_down_down')]_vars

OnlyWHeld == is_w_down /\ ~is_s_down /\ ~is_up_down /\ ~is_down_down

\* C3 as claimed: with only W held and paddle 1's top at least one step below
\* the top bound, one loop iteration moves paddle 1 up by exactly one step and
\* leaves paddle 2 unchanged; stated on the iterations whose poll delivers no
\* event, where the paddles at the frame step are those of the iteration's
\* start.
C3_OneStepPerIteration ==
    [][(IsFrameStep /\ polled = 0 /\ OnlyWHeld
            /\ TopY(player_1) + PaddleStep <= TopBound) =>
          /\ player_1' = player_up(player_1)
          /\ player_2' = player_2]_vars

\* C3 amended: a key event that leaves only W held, with paddle 1's top more
\* than one step below the top bound, moves every vertex of paddle 1 up by
\* exactly one step and leaves paddle 2 unchanged; an iteration whose poll
\* delivers no event moves neither paddle.
C3_OneStepPerEvent ==
    [][/\ (IsKeyStep /\ OnlyWHeld' /\ TopY(player_1) + PaddleStep < TopBound) =>
            /\ \A i \in 1..4 :
                  /\ player_1'[i].position[2] = player_1[i].position[2] + PaddleStep
                  /\ player_1'[i].position[1] = player_1[i].position[1]
            /\ player_2' = player_2
       /\ (IsFrameStep /\ polled = 0) =>
            /\ player_1' = player_1
            /\ player_2' = player_2]_vars

\* C3 witness: the first key event of the run was a press of W.
C3_Witness ==
    /\ pc = "poll"
    /\ polled = 1
    /\ OnlyWHeld
    /\ TopY(player_1) = TopY(vertices_1) + PaddleStep
    /\ BottomY(player_1) = BottomY(vertices_1) + PaddleStep
    /\ player_2 = vertices_2

\* C8: a key event for a key other than W, S, Up, Down leaves the four held
\* flags and every vertex of both paddles unchanged.
C8_OtherKeyIgnored ==
    [][(\E action \in Actions : KeyStep("Other", action)) =>
          UNCHANGED <<is_w_down, is_s_down, is_up_down, is_down_down,
                      player_1, player_2>>]_vars

\* vs is the quad v0 moved vertically by one offset, nothing else changed
IsRigidTranslation(vs, v0) ==
    /\ Len(vs) = Len(v0)
    /\ \A i \in 1..Len(v0) :
          /\ vs[i].position[1] = v0[i].position[1]
          /\ vs[i].position[3] = v0[i].position[3]
          /\ vs[i].color = v0[i].color
          /\ vs[i].position[2] - v0[i].position[2]
                = vs[1].position[2] - v0[1].position[2]

\* C9: in every state, and in every frame snapshot, each paddle is its
\* initial quad moved vertically by one offset common to its four vertices.
C9_RigidTranslation ==
    /\ IsRigidTranslation(player_1, vertices_1)
    /\ IsRigidTranslation(player_2, vertices_2)
    /\ pc = "render" =>
          /\ IsRigidTranslation(SubSeq(new_vertices, 1, 4), vertices_1)
          /\ IsRigidTranslation(SubSeq(new_vertices, 5, 8), vertices_2)

\* C9 witness: a frame read with both paddles moved, paddle 2 upward.
C9_Witness ==
    /\ pc = "render"
    /\ TopY(SubSeq(new_vertices, 1, 4)) < TopY(vertices_1)
    /\ TopY(SubSeq(new_vertices, 5, 8)) > TopY(vertices_2)

\* C10: the ball is created with speed 0 and direction ZERO; after the serve
\* its speed is the nonzero base speed and its direction is HALF_TURN when the
\* coin toss chose player 1 and ZERO otherwise.
C10_ServeDeterminism ==
    /\ pc = "serve" =>
          /\ to_player_1 = <<>>
          /\ ball.velocity = 0
          /\ ball.velocity_direction = ZERO
    /\ pc # "serve" =>
          /\ Len(to_player_1) = 1
          /\ ball.velocity = BaseSpeed
          /\ BaseSpeed # 0
          /\ HALF_TURN # ZERO
          /\ ball.velocity_direction = IF to_player_1[1] THEN HALF_TURN ELSE ZERO

\* C10 witness: the serve toward player 1 has happened.
C10_Witness ==
    /\ pc = "loop"
    /\ to_player_1 = <<TRUE>>
    /\ ball.velocity_direction = HALF_TURN
    /\ ball.velocity = BaseSpeed

\* the other outcome of the coin toss: the serve toward player 2
C10_ServedToPlayer2 ==
    /\ pc = "loop"
    /\ to_player_1 = <<FALSE>>
    /\ ball.velocity_direction = ZERO
    /\ ball.velocity = BaseSpeed

---------------------------------------------------------------------------
(* SpecKeys: the program with the history of the key events recorded.      *)

TrackedKeys == {"W", "S", "Up", "Down"}

KeyEventRecorded(key, action) ==
    /\ last.n < MaxHistory
    /\ KeyStep(key, action)
    /\ last' = [act |-> [last.act EXCEPT ![key] = action], n |-> last.n + 1]
    /\ UNCHANGED <<hist, twin, locking>>

NextKeys ==
    \/ Serve
    \/ EnterLoop
    \/ Close
    \/ \E key \in Keys, action \in Actions : KeyEventRecorded(key, action)
    \/ Frame
    \/ Render

SpecKeys == Init /\ [][NextKeys]_vars

\* the held flag of a tracked key
FlagOf(key) ==
    CASE key = "W" -> is_w_down
      [] key = "S" -> is_s_down
      [] key = "Up" -> is_up_down
      [] key = "Down" -> is_down_down

\* C7: after any sequence of key events each held flag is true exactly when
\* the most recent event delivered for its key was a press or a repeat (false
\* after a release, and false when no event for the key was delivered).
C7_FlagIsLastAction ==
    \A key \in TrackedKeys :
        FlagOf(key) = (last.act[key] = "Press" \/ last.act[key] = "Repeat")

\* C7 witness: W last repeated, S last released, Up last pressed, Down never
\* touched.
C7_Witness ==
    /\ last.act["W"] = "Repeat"
    /\ last.act["S"] = "Release"
    /\ last.act["Up"] = "Press"
    /\ last.act["Down"] = "None"
    /\ is_w_down /\ ~is_s_down /\ is_up_down /\ ~is_down_down

---------------------------------------------------------------------------
(* SpecClamp: sanitize alone, on a paddle at any height around the arena.  *)

\* vertical offsets of the paddle handed to sanitize: from ClampRange below
\* the bottom bound to ClampRange above the top bound
ClampOffsets ==
    (BottomBound - BottomY(vertices_1) - ClampRange) ..
    (TopBound - TopY(vertices_1) + ClampRange)

\* the paddle under test
Tested == IF hist.who = 1 THEN player_1 ELSE player_2

InitClamp ==
    /\ \E who \in {1, 2}, d \in ClampOffsets :
          /\ player_1 = IF who = 1 THEN MoveAll(vertices_1, d) ELSE vertices_1
          /\ player_2 = IF who = 2 THEN MoveAll(vertices_2, d) ELSE vertices_2
          /\ hist = [who |-> who,
                     seq |-> <<IF who = 1 THEN MoveAll(vertices_1, d)
                                          ELSE MoveAll(vertices_2, d)>>]
    /\ ball = InitBall
    /\ is_w_down = FALSE
    /\ is_s_down = FALSE
    /\ is_up_down = FALSE
    /\ is_down_down = FALSE
    /\ to_player_1 = <<>>
    /\ combined_indices = indices_1 \o indices_2 \o ball_indices
    /\ new_vertices = <<>>
    /\ pc = "sanitize"
    /\ polled = 0
    /\ last = NoLast
    /\ twin = NoTwin
    /\ mutex = {}
    /\ todo = Idle(0)

\* one call sanitize(&player) on the paddle under test; at most two calls
SanitizeCall ==
    /\ pc = "sanitize"
    /\ Len(hist.seq) < 3
    /\ \E after \in {sanitize(Tested)} :
          /\ player_1' = IF hist.who = 1 THEN after ELSE player_1
          /\ player_2' = IF hist.who = 2 THEN after ELSE player_2
          /\ hist' = [hist EXCEPT !.seq = Append(@, after)]
    /\ UNCHANGED <<ball, is_w_down, is_s_down, is_up_down, is_down_down,
                   to_player_1, combined_indices, new_vertices, pc, polled,
                   last, twin, locking>>

NextClamp == SanitizeCall

SpecClamp == InitClamp /\ [][NextClamp]_vars

\* after is before moved vertically as a whole: height and x unchanged
SameShape(after, before) ==
    /\ Len(after) = Len(before)
    /\ \A i \in 1..Len(before) :
          /\ after[i].position[1] = before[i].position[1]
          /\ after[i].position[3] = before[i].position[3]
          /\ after[i].color = before[i].color
    /\ TopY(after) - BottomY(after) = TopY(before) - BottomY(before)
    /\ after[3].position[2] = after[1].position[2]
    /\ after[2].position[2] = after[4].position[2]

\* C5: a paddle whose top is above the top bound has, after one sanitize
\* call, its top exactly at the bound, its height and x coordinates unchanged;
\* a paddle whose bottom is below the bottom bound (top not above the top
\* bound) has its bottom exactly at the bound, shape unchanged.
C5_ClampCorrect ==
    Len(hist.seq) >= 2 =>
        /\ TopY(hist.seq[1]) > TopBound =>
              /\ TopY(hist.seq[2]) = TopBound
              /\ SameShape(hist.seq[2], hist.seq[1])
        /\ (BottomY(hist.seq[1]) < BottomBound /\ TopY(hist.seq[1]) <= TopBound) =>
              /\ BottomY(hist.seq[2]) = BottomBound
              /\ SameShape(hist.seq[2], hist.seq[1])

\* C5 witness: paddle 2, its top 0.01 above the bound, after one sanitize call.
C5_Witness ==
    /\ hist.who = 2
    /\ Len(hist.seq) = 2
    /\ TopY(hist.seq[1]) = TopBound + 1
    /\ TopY(player_2) = TopBound
    /\ BottomY(player_2) = TopBound - (TopY(vertices_2) - BottomY(vertices_2))

\* C6: sanitize applied twice in a row leaves exactly the vertex positions
\* that sanitize applied once leaves, for a paddle inside the arena, above the
\* top bound or below the bottom bound.
C6_ClampIdempotent ==
    Len(hist.seq) = 3 => (hist.seq[3] = hist.seq[2] /\ Tested = hist.seq[2])

\* C6 witness: a paddle that started below the bottom bound, after two calls.
C6_Witness ==
    /\ Len(hist.seq) = 3
    /\ BottomY(hist.seq[1]) < BottomBound
    /\ BottomY(hist.seq[2]) = BottomBound
    /\ BottomY(Tested) = BottomBound

---------------------------------------------------------------------------
(* SpecTwin: two runs of the program side by side.  The runs receive the   *)
(* same events for the keys of one paddle (twin.same) and differ freely in *)
(* the events for the keys of the other paddle.                            *)

SharedKeys == IF twin.same = "WS" THEN {"W", "S"} ELSE {"Up", "Down"}

FreeKeys == TrackedKeys \ SharedKeys

InitTwin ==
    /\ Program
    /\ last = NoLast
    /\ hist = NoHist
    /\ mutex = {}
    /\ todo = Idle(0)
    /\ \E same \in {"WS", "UpDown"} : twin = [NoTwin EXCEPT !.same = same]

\* the key callback of the second run
TwinStep(key, action) ==
    /\ pc = "poll"
    /\ twin.n < MaxTwinEvents
    /\ \E st \in {key_callback([ps |-> twin.ps, f |-> twin.f], key, action)} :
          twin' = [twin EXCEPT !.ps = st.ps, !.f = st.f, !.n = @ + 1]

\* both runs receive the same event for a key of the compared paddle
TwinShared(key, action) ==
    /\ key \in SharedKeys
    /\ KeyStep(key, action)
    /\ TwinStep(key, action)
    /\ UNCHANGED <<last, hist, locking>>

\* only the first run receives an event for a key of the other paddle
TwinFirstOnly(key, action) ==
    /\ key \in FreeKeys
    /\ KeyStep(key, action)
    /\ UNCHANGED history

\* only the second run receives an event for a key of the other paddle
TwinSecondOnly(key, action) ==
    /\ key \in FreeKeys
    /\ TwinStep(key, action)
    /\ UNCHANGED <<player_1, player_2, ball, is_w_down, is_s_down, is_up_down,
                   is_down_down, to_player_1, combined_indices, new_vertices,
                   pc, polled, last, hist, locking>>

NextTwin ==
    \/ Serve
    \/ EnterLoop
    \/ \E key \in TrackedKeys, action \in Actions : TwinShared(key, action)
    \/ \E key \in TrackedKeys, action \in Actions : TwinFirstOnly(key, action)
    \/ \E key \in TrackedKeys, action \in Actions : TwinSecondOnly(key, action)

SpecTwin == InitTwin /\ [][NextTwin]_vars

\* C4: two runs with the same W/S events have the same paddle 1 after every
\* event, whatever their Up/Down events; two runs with the same Up/Down
\* events have the same paddle 2, whatever their W/S events.
C4_PaddlesIndependent ==
    /\ twin.same = "WS" => player_1 = twin.ps[1]
    /\ twin.same = "UpDown" => player_2 = twin.ps[2]

---------------------------------------------------------------------------
(* The ball and the frame geometry, under Spec.                            *)

\* speed * cos(direction) for the two serve directions: cos(0) = 1 and
\* cos(half turn) = -1; speed * sin(direction) is 0 for both
BallDx == IF ball.velocity_direction = HALF_TURN THEN 0 - ball.velocity
                                                 ELSE ball.velocity

\* C11: in every frame after the serve all four ball vertices are translated
\* by dx = speed * cos(direction) (+0.03 or -0.03) and dy = 0.
C11_BallIntegrates ==
    [][IsFrameStep =>
          \A i \in 1..4 :
              ball'.vertices[i].position =
                  <<ball.vertices[i].position[1] + BallDx,
                    ball.vertices[i].position[2],
                    ball.vertices[i].position[3]>>]_vars

\* No statement of run() writes ball.vertices: the ball stays where it was
\* created, so it never reaches an edge of the arena.
BallNeverMoves == ball.vertices = ball_vertices

\* combined_vertices: the geometry the vertex buffer is created with
combined_vertices == vertices_1 \o vertices_2 \o ball_vertices

\* C13: every frame's snapshot is 12 vertices, paddle 1 (4), paddle 2 (4),
\* ball (4) in this order; the index list never changes; only the y component
\* of a vertex differs from the initial geometry.
C13_FrameGeometry ==
    /\ combined_indices = <<0, 1, 2, 2, 1, 3, 4, 6, 5, 6, 7, 5, 8, 9, 10, 8, 10, 11>>
    /\ pc = "render" =>
          /\ Len(new_vertices) = 12
          /\ SubSeq(new_vertices, 1, 4) = player_1
          /\ SubSeq(new_vertices, 5, 8) = player_2
          /\ SubSeq(new_vertices, 9, 12) = ball.vertices
          /\ \A i \in 1..12 :
                /\ new_vertices[i].position[1] = combined_vertices[i].position[1]
                /\ new_vertices[i].position[3] = combined_vertices[i].position[3]
                /\ new_vertices[i].color = combined_vertices[i].color

\* C13 witness: a snapshot in which paddle 1 has moved down and paddle 2 has
\* not moved.
C13_Witness ==
    /\ pc = "render"
    /\ Len(new_vertices) = 12
    /\ new_vertices[1].position[2] < TopY(vertices_1)
    /\ new_vertices[5].position[2] = TopY(vertices_2)

\* the paddle lies inside the arena
InArena(player) == TopY(player) <= TopBound /\ BottomY(player) >= BottomBound

\* C14: after every key event, before any sanitize call, both paddles satisfy
\* top <= 1 and bottom >= -1 (every move follows its own paddle's guard).
C14_InArenaAfterEveryEvent ==
    pc = "poll" => (InArena(player_1) /\ InArena(player_2))

\* C15: paddle 1 is strictly inside the arena in every state (top < 1 and
\* bottom > -1), so a sanitize call leaves it as it is.
C15_Player1StrictlyInside ==
    /\ TopY(player_1) < TopBound
    /\ BottomY(player_1) > BottomBound
    /\ player_1[3].position[2] < TopBound
    /\ player_1[2].position[2] > BottomBound
    /\ sanitize(player_1) = player_1

\* C15 witness: paddle 1 as high as it gets, at a frame read.
C15_Witness ==
    /\ pc = "render"
    /\ TopY(player_1) = TopBound - PaddleStep
    /\ new_vertices[1].position[2] = TopBound - PaddleStep

\* what one sanitize call may do to a paddle: nothing when it lies inside the
\* arena, otherwise one vertical move of the whole paddle by its overshoot
\* past the one bound it violates, after which it lies inside the arena
ClampOutcome(before, after) ==
    /\ InArena(before) => after = before
    /\ InArena(after)
    /\ ~(TopY(before) > TopBound /\ BottomY(before) < BottomBound)
    /\ \A i \in 1..4 :
          /\ after[i].position[1] = before[i].position[1]
          /\ after[i].position[3] = before[i].position[3]
          /\ after[i].color = before[i].color
          /\ TopY(before) > TopBound =>
                after[i].position[2] = before[i].position[2] - (TopY(before) - TopBound)
          /\ BottomY(before) < BottomBound =>
                after[i].position[2] = before[i].position[2] + (BottomBound - BottomY(before))

\* C16: at every frame each sanitize call applies at most one correction,
\* leaves a paddle inside the arena unchanged, and leaves no bound violated.
C16_OneCorrection ==
    [][IsFrameStep =>
          /\ ClampOutcome(player_1, player_1')
          /\ ClampOutcome(player_2, player_2')]_vars

\* C16 witness: a frame read after a full batch of events with W, S and Up
\* held, paddle 2 resting on the top bound.
C16_Witness ==
    /\ pc = "render"
    /\ polled = MaxBatch
    /\ is_w_down /\ is_s_down /\ is_up_down
    /\ TopY(player_2) = TopBound
    /\ BottomY(player_2) = TopBound - (TopY(vertices_2) - BottomY(vertices_2))

---------------------------------------------------------------------------
(* SpecLocks: the key callback and the frame, one Mutex section at a time. *)
(* Every closure call and every sanitize statement is an expression of the *)
(* form player.lock().unwrap()...: it locks the paddle's Mutex, reads or   *)
(* writes the vertices, and drops the temporary MutexGuard at the end of   *)
(* the statement.  A handler is a list of instructions; an instruction is  *)
(* a test under the lock of paddle g, followed, when the test passes, by a *)
(* write under the lock of paddle m.  The one thread of the program runs   *)
(* the callbacks (inside poll_events) and the loop body.                   *)

Instr(kind, g, m) == [kind |-> kind, g |-> g, m |-> m]

\* The instructions of the key callback's movement blocks under flags f:
\* "up" is if can_move_up(g) { player_up(m) }, "down" likewise.
CallbackInstrs(f) ==
    (IF f.w /\ f.up THEN <<Instr("up", 1, 1), Instr("up", 1, 2)>> ELSE <<>>)
    \o (IF f.s /\ f.up THEN <<Instr("down", 1, 1), Instr("up", 2, 2)>> ELSE <<>>)
    \o (IF f.w /\ f.down THEN <<Instr("up", 1, 1), Instr("down", 2, 2)>> ELSE <<>>)
    \o (IF f.s /\ f.down THEN <<Instr("down", 1, 1), Instr("down", 2, 2)>> ELSE <<>>)
    \o (IF f.w THEN <<Instr("up", 1, 1)>> ELSE <<>>)
    \o (IF f.s THEN <<Instr("down", 1, 1)>> ELSE <<>>)
    \o (IF f.up THEN <<Instr("up", 2, 2)>> ELSE <<>>)
    \o (IF f.down THEN <<Instr("down", 2, 2)>> ELSE <<>>)

\* sanitize(&player_1); sanitize(&player_2); then the two locked reads of the
\* snapshot.  "top" is the top_delta test and correction, "bottom" the
\* bottom_delta test and correction, "read" the extend_from_slice.
FrameInstrs ==
    <<Instr("top", 1, 1), Instr("bottom", 1, 1),
      Instr("top", 2, 2), Instr("bottom", 2, 2),
      Instr("read", 1, 1), Instr("read", 2, 2)>>

\* the paddle behind Mutex p
Paddle(p) == IF p = 1 THEN player_1 ELSE player_2

\* the first phase of an instruction: a read has no test
FirstPhase(instr) == IF instr.kind = "read" THEN "acquire_apply" ELSE "acquire_test"

\* the handler t with the instructions `rest` left
Continue(t, rest) ==
    IF rest # <<>>
    THEN [t EXCEPT !.instrs = rest, !.phase = FirstPhase(rest[1]), !.delta = 0]
    ELSE IF t.handler = "key" THEN Idle(t.n)
    ELSE [t EXCEPT !.instrs = <<>>, !.phase = "none", !.delta = 0]

\* the handler t after k of its instructions are done with
Advance(t, k) == Continue(t, SubSeq(t.instrs, k + 1, Len(t.instrs)))

\* the locked Mutexes with the guard of m kept alive past its statement
GuardKept(held, m) == held

\* the locked Mutexes after the temporary MutexGuard of m is dropped at the
\* end of the statement that locked it
GuardDropped(held, m) == held \ {m}

\* glfw.poll_events() calls the key callback: the flag assignments
LockKeyBegin(key, action) ==
    /\ pc = "poll"
    /\ todo.handler = "idle"
    /\ todo.n < MaxLockRuns
    /\ polled < MaxBatch
    /\ \E f \in {UpdateFlags(Flags, key, action)} :
          /\ is_w_down' = f.w
          /\ is_s_down' = f.s
          /\ is_up_down' = f.up
          /\ is_down_down' = f.down
          /\ todo' = Continue([Idle(todo.n + 1) EXCEPT !.handler = "key"],
                              CallbackInstrs(f))
    /\ polled' = polled + 1
    /\ UNCHANGED <<player_1, player_2, ball, to_player_1, combined_indices,
                   new_vertices, pc, last, hist, twin, mutex>>

\* poll_events has returned: the loop body goes on to the sanitize calls
LockFrameBegin ==
    /\ pc = "poll"
    /\ todo.handler = "idle"
    /\ todo.n < MaxLockRuns
    /\ todo' = Continue([Idle(todo.n + 1) EXCEPT !.handler = "frame"], FrameInstrs)
    /\ UNCHANGED <<player_1, player_2, ball, is_w_down, is_s_down, is_up_down,
                   is_down_down, to_player_1, combined_indices, new_vertices,
                   pc, polled, last, hist, twin, mutex>>

\* player.lock().unwrap(): the thread blocks for ever on a std Mutex it
\* holds itself
LockAcquire ==
    /\ todo.handler # "idle"
    /\ todo.phase \in {"acquire_test", "acquire_apply"}
    /\ LET p == IF todo.phase = "acquire_test" THEN todo.instrs[1].g
                                               ELSE todo.instrs[1].m
       IN  IF p \in mutex
           THEN /\ pc' = "deadlock"
                /\ UNCHANGED <<mutex, todo>>
           ELSE /\ mutex' = mutex \cup {p}
                /\ todo' = [todo EXCEPT !.phase = IF todo.phase = "acquire_test"
                                                  THEN "test" ELSE "apply"]
                /\ UNCHANGED pc
    /\ UNCHANGED <<player_1, player_2, ball, is_w_down, is_s_down, is_up_down,
                   is_down_down, to_player_1, combined_indices, new_vertices,
                   polled, last, hist, twin>>

\* what the locked test statement reads: the overshoot for sanitize
TestDelta(instr) ==
    CASE instr.kind = "top" -> TopY(Paddle(instr.g)) - TopBound
      [] instr.kind = "bottom" -> BottomBound - BottomY(Paddle(instr.g))
      [] OTHER -> 0

\* whether the locked test statement lets the write follow
TestPasses(instr) ==
    CASE instr.kind = "up" -> can_move_up(Paddle(instr.g))
      [] instr.kind = "down" -> can_move_down(Paddle(instr.g))
      [] OTHER -> TestDelta(instr) > 0

\* the test statement under the lock of g: can_move_up, can_move_down,
\* let top_delta = ..., let bottom_delta = ...
LockTest ==
    /\ todo.handler # "idle"
    /\ todo.phase = "test"
    /\ pc # "deadlock"
    /\ mutex' = GuardDropped(mutex, todo.instrs[1].g)
    /\ todo' = IF TestPasses(todo.instrs[1])
               THEN [todo EXCEPT !.phase = "acquire_apply",
                                 !.delta = TestDelta(todo.instrs[1])]
               ELSE Advance(todo, 1)
    /\ UNCHANGED <<player_1, player_2, ball, is_w_down, is_s_down, is_up_down,
                   is_down_down, to_player_1, combined_indices, new_vertices,
                   pc, polled, last, hist, twin>>

\* the paddle m after the write of the instruction
Written(instr, delta) ==
    CASE instr.kind = "up" -> player_up(Paddle(instr.m))
      [] instr.kind = "down" -> player_down(Paddle(instr.m))
      [] instr.kind = "top" -> MoveAll(Paddle(instr.m), 0 - delta)
      [] instr.kind = "bottom" -> MoveAll(Paddle(instr.m), delta)
      [] OTHER -> Paddle(instr.m)

\* the write statement under the lock of m: player_up, player_down, the
\* corrections of sanitize (the top one returns), the snapshot's copy
LockApply ==
    /\ todo.handler # "idle"
    /\ todo.phase = "apply"
    /\ pc # "deadlock"
    /\ \E after \in {Written(todo.instrs[1], todo.delta)} :
          /\ player_1' = IF todo.instrs[1].m = 1 THEN after ELSE player_1
          /\ player_2' = IF todo.instrs[1].m = 2 THEN after ELSE player_2
          /\ new_vertices' = IF todo.instrs[1].kind = "read"
                             THEN new_vertices \o after ELSE new_vertices
    /\ mutex' = GuardDropped(mutex, todo.instrs[1].m)
    /\ todo' = Advance(todo, IF todo.instrs[1].kind = "top" THEN 2 ELSE 1)
    /\ UNCHANGED <<ball, is_w_down, is_s_down, is_up_down, is_down_down,
                   to_player_1, combined_indices, pc, polled, last, hist, twin>>

\* new_vertices.extend_from_slice(&ball.vertices): the snapshot is complete
LockFrameEnd ==
    /\ pc = "poll"
    /\ todo.handler = "frame"
    /\ todo.instrs = <<>>
    /\ new_vertices' = new_vertices \o ball.vertices
    /\ pc' = "render"
    /\ todo' = Idle(todo.n)
    /\ UNCHANGED <<player_1, player_2, ball, is_w_down, is_s_down, is_up_down,
                   is_down_down, to_player_1, combined_indices, polled, last,
                   hist, twin, mutex>>

NextLocks ==
    \/ EnterLoop
    \/ Close
    \/ \E key \in Keys, action \in Actions : LockKeyBegin(key, action)
    \/ LockFrameBegin
    \/ LockAcquire
    \/ LockTest
    \/ LockApply
    \/ LockFrameEnd
    \/ Render

\* paddle 2 as far up as the Up key alone takes it: fifteen steps
NearTop == MoveAll(vertices_2, 15 * PaddleStep)

\* The loop between two iterations, no key held, the ball served, paddle 1
\* at its start and paddle 2 at its start or as far up as Up alone takes it.
InitLocks ==
    /\ player_1 = vertices_1
    /\ player_2 \in {vertices_2, NearTop}
    /\ \E toss \in BOOLEAN :
          /\ ball = ServeBall(InitBall, toss)
          /\ to_player_1 = <<toss>>
    /\ is_w_down = FALSE
    /\ is_s_down = FALSE
    /\ is_up_down = FALSE
    /\ is_down_down = FALSE
    /\ combined_indices = indices_1 \o indices_2 \o ball_indices
    /\ new_vertices = <<>>
    /\ pc = "loop"
    /\ polled = 0
    /\ last = NoLast
    /\ hist = NoHist
    /\ twin = NoTwin
    /\ mutex = {}
    /\ todo = Idle(0)

SpecLocks == InitLocks /\ [][NextLocks]_vars

\* a handler in progress can take its next step
HandlerCanStep == ENABLED (LockAcquire \/ LockTest \/ LockApply \/ LockFrameEnd)

\* C17: every acquisition of a paddle's Mutex is released before the thread
\* acquires that or the other Mutex again: the thread holds no Mutex when it
\* locks one, holds exactly the one it locked while it reads or writes, and
\* none between statements; it never blocks on a Mutex it holds, and a
\* handler in progress can always take its next step.
C17_LockDiscipline ==
    /\ pc # "deadlock"
    /\ Cardinality(mutex) <= 1
    /\ todo.phase \in {"none", "acquire_test", "acquire_apply"} => mutex = {}
    /\ todo.phase = "test" => mutex = {todo.instrs[1].g}
    /\ todo.phase = "apply" => mutex = {todo.instrs[1].m}
    /\ todo.handler # "idle" => HandlerCanStep

\* C17 witness: in the W+Up block of the callback, paddle 1's guard has been
\* evaluated and its Mutex released, and paddle 2's Mutex is held for the move.
C17_Witness ==
    /\ todo.handler = "key"
    /\ todo.phase = "apply"
    /\ todo.instrs[1] = Instr("up", 1, 2)
    /\ mutex = {2}

\* the lock-by-lock frame takes the snapshot the atomic Frame action takes
LocksAgreeWithFrame ==
    pc = "render" => new_vertices = Snapshot(player_1, player_2, ball)

=============================================================================
